---- MODULE Spec2Model ----
(***************************************************************************)
(* Model of the metrics engine of src/src/analytics/framework.py:          *)
(* MetricsEngine with its section registry, its pickle cache under         *)
(* cache_dir, the section executor compute_section and the orchestrator    *)
(* compute_all_metrics (ThreadPoolExecutor fan-out, as_completed loop,      *)
(* progress callback, summary, cache store).                               *)
(*                                                                         *)
(* Strings that the code formats (the pre-hash cache key) are sequences of *)
(* one-character strings, so that formatting is computed as Python         *)
(* computes it.  Python dicts are functions whose DOMAIN is the key set.   *)
(***************************************************************************)
EXTENDS Integers, Sequences, FiniteSets, TLC

VARIABLES
    sections,    \* self.sections: the registry, a sequence of descriptors
    now,         \* time.time(), in seconds
    cache,       \* the files of cache_dir: cache key -> NoFile or [blob, mtime]
    pc,          \* position of the thread that calls compute_all_metrics
    call,        \* arguments and locals of the compute_all_metrics call
    load,        \* locals of _load_from_cache while it runs
    task,        \* the futures: section id -> state of its compute_section task
    results,     \* the local `results` of compute_all_metrics
    completed,   \* the local `completed` of compute_all_metrics
    cbLog,       \* invocations of progress_callback during the current call
    ret,         \* outcome of the last finished call
    prev,        \* the finished call before that one
    hist,        \* what the current call did (executions, stores, lookups)
    budget,      \* number of calls the behaviour may still start
    keyIn,       \* two argument tuples given to _generate_cache_key
    keyOut,      \* the two key strings computed from keyIn
    cleared,     \* clear_cache has returned and no store was made since
    fnIn,        \* a metric function and the events table it is applied to
    fnOut,       \* what that function did: raised, or the metrics it returned
    mem,         \* the table objects and the frames of the functions that use them
    shared       \* a cache file as engines on one cache_dir read and write it

vars == <<sections, now, cache, pc, call, load, task, results, completed,
          cbLog, ret, prev, hist, budget, keyIn, keyOut, cleared, fnIn, fnOut,
          mem, shared>>

engineVars == <<sections, now, cache, pc, call, load, task, results, completed,
                cbLog, ret, prev, hist, budget, cleared>>

(***************************************************************************)
(* Bounds of the model                                                     *)
(***************************************************************************)
NumSections == 3     \* sections of the engine when one call is explored
CacheSections == 1   \* sections of the engine when several calls are explored
MaxCalls == 2        \* compute_all_metrics calls in one behaviour
MaxTicks == 3        \* clock advances in one behaviour
MaxRows == 2         \* largest row count of an input table
PoolSections == 5    \* sections of the engine when the worker pool is explored

(***************************************************************************)
(* Program constants                                                       *)
(***************************************************************************)
TTL == 3600          \* cache_age < 3600
MaxWorkers == 4      \* ThreadPoolExecutor(max_workers=4)
ClockStep == TTL \div 2

None == [none |-> TRUE]          \* Python's None where a table or bundle may stand
NoneStr == <<"None">>            \* Python's None where a str may stand (no character)
NoFile == [file |-> FALSE]       \* no file of that name in cache_dir
Corrupt == [ok |-> FALSE]        \* file content that pickle.load cannot read

(***************************************************************************)
(* Strings as character sequences                                          *)
(***************************************************************************)
Digit(d) == <<"0", "1", "2", "3", "4", "5", "6", "7", "8", "9">>[d + 1]

\* str(n) for an int n >= 0
RECURSIVE StrInt(_)
StrInt(n) == IF n < 10 THEN <<Digit(n)>>
             ELSE StrInt(n \div 10) \o <<Digit(n % 10)>>

\* repr(s) of a str without quotes or backslashes
ReprStr(s) == <<"'">> \o s \o <<"'">>

\* ", ".join(repr(x) for x in l)
RECURSIVE JoinRepr(_)
JoinRepr(l) == IF Len(l) = 0 THEN <<>>
               ELSE IF Len(l) = 1 THEN ReprStr(l[1])
               ELSE ReprStr(l[1]) \o <<",", " ">> \o JoinRepr(Tail(l))

\* str(l) of a list of str
StrList(l) == <<"[">> \o JoinRepr(l) \o <<"]">>

\* bool(team_id): None and the empty string are falsy
Truthy(s) == s # NoneStr /\ s # <<>>

(***************************************************************************)
(* Input tables.  A DataFrame is [rows, cols, content]: its row count, the *)
(* list of its column names, and an identifier of everything else (cell    *)
(* values and row order).                                                  *)
(***************************************************************************)
ColA == <<"a">>
ColB == <<"b">>
Contents == {1, 2}
EventTables == [rows : 1..MaxRows,
                cols : {<<ColA>>, <<ColA, ColB>>, <<ColB, ColA>>},
                content : Contents]
PhaseTables == [rows : 0..1, cols : {<<>>, <<ColA>>}, content : {1}]
TeamIds == {NoneStr, <<>>, <<"m", "1">>, <<"0", "_", "[", "]">>}

\* _generate_cache_key up to the hash: the string that is hashed
KeyString(events_df, phases_df, team_id) ==
    LET s1 == StrInt(events_df.rows) \o <<"_">> \o StrList(events_df.cols)
        s2 == IF phases_df # None
              THEN s1 \o <<"_">> \o StrInt(phases_df.rows) \o <<"_">>
                      \o StrList(phases_df.cols)
              ELSE s1
        s3 == IF Truthy(team_id) THEN s2 \o <<"_">> \o team_id ELSE s2
    IN  s3

\* hashlib.md5(...).hexdigest(): a function of the key string alone, taken to
\* be collision-free (the digest is tagged, not computed)
Md5Hex(s) == <<"md5">> \o s

GenerateCacheKey(events_df, phases_df, team_id) ==
    Md5Hex(KeyString(events_df, phases_df, team_id))

(***************************************************************************)
(* The section registry (MetricsEngine.__init__)                           *)
(***************************************************************************)
Desc(i, n, c) == [id |-> i, name |-> n, icon |-> c]

Registry ==
    << Desc("team_identity", "Team Identity & Setup", "U+1F9E9"),
       Desc("possession", "Possession & Build-Up", "U+2699"),
       Desc("chance_creation", "Chance Creation", "U+26A1"),
       Desc("defensive_structure", "Defensive Structure", "U+1F6E1"),
       Desc("transitions", "Transitions", "U+1F504"),
       Desc("tactical_intelligence", "Tactical Intelligence", "U+1F9E0"),
       Desc("individual_players", "Individual Players", "U+1F464"),
       Desc("team_chemistry", "Team Chemistry", "U+1F91D"),
       Desc("efficiency", "Efficiency", "U+1F4CA"),
       Desc("set_pieces", "Set-Pieces", "U+26BD"),
       Desc("momentum", "Momentum", "U+1F4C8"),
       Desc("consistency", "Consistency", "U+1F3AF"),
       Desc("training_focus", "Training Focus", "U+1F4AA"),
       Desc("opponent_exploitation", "Opponent Exploitation", "U+1F3B2") >>

Range(f) == {f[i] : i \in DOMAIN f}
SectionIds == {sections[i].id : i \in DOMAIN sections}
SectionOf(i) == CHOOSE d \in Range(sections) : d.id = i
IndexOf(i) == CHOOSE k \in DOMAIN sections : sections[k].id = i

(***************************************************************************)
(* Section results (compute_section and the orchestrator's error record)   *)
(***************************************************************************)
NoResult == <<>>

\* what str(e) gives for the exception a section function raised
ErrorText(section) == <<"error in ", section.id>>
\* what str(e) gives for an exception the progress callback raised
CallbackErrorText == <<"callback error">>

\* the dict an analytic function returns for a table: a section label and the
\* metrics it derived from the content of the tables
FunctionResult(section, events_df, phases_df) ==
    ("section" :> section.name)
    @@ ("metrics" :> {<<section.id, events_df.content,
                       IF phases_df = None THEN 0 ELSE phases_df.content>>})

\* compute_section whose error dict carries no 'status'
ComputeSectionNoStatus(section, events_df, phases_df, raised, t0, t1) ==
    IF ~raised
    THEN ("id" :> section.id) @@ ("name" :> section.name)
         @@ ("icon" :> section.icon) @@ ("computation_time" :> t1 - t0)
         @@ ("status" :> "success")
         @@ FunctionResult(section, events_df, phases_df)
    ELSE ("id" :> section.id) @@ ("name" :> section.name)
         @@ ("icon" :> section.icon) @@ ("section" :> section.name)
         @@ ("error" :> ErrorText(section))
         @@ ("metrics" :> {})

\* compute_section: `raised` tells whether section['function'] raised; t0 and
\* t1 are time.time() before and after it ran
ComputeSection(section, events_df, phases_df, raised, t0, t1) ==
    IF ~raised
    THEN ("id" :> section.id) @@ ("name" :> section.name)
         @@ ("icon" :> section.icon) @@ ("computation_time" :> t1 - t0)
         @@ ("status" :> "success")
         @@ FunctionResult(section, events_df, phases_df)
    ELSE ("id" :> section.id) @@ ("name" :> section.name)
         @@ ("icon" :> section.icon) @@ ("section" :> section.name)
         @@ ("status" :> "error") @@ ("error" :> ErrorText(section))
         @@ ("metrics" :> {})

\* an except branch whose record names no section
LoopErrorRecordAnonymous(section, text) ==
    ("status" :> "error") @@ ("error" :> text) @@ ("metrics" :> {})

\* the record the as_completed loop stores in its except branch
LoopErrorRecord(section, text) ==
    ("id" :> section.id) @@ ("name" :> section.name)
    @@ ("icon" :> section.icon) @@ ("status" :> "error")
    @@ ("error" :> text) @@ ("metrics" :> {})

\* d.get(k): the value under k, or None's stand-in for strings
Get(d, k) == IF k \in DOMAIN d THEN d[k] ELSE "None"

\* an assignment that ignores error records
DictSetSkipsErrors(d, key, value) ==
    IF Get(value, "status") = "error" THEN d
    ELSE [order |-> IF key \in DOMAIN d.map THEN d.order ELSE Append(d.order, key),
          map   |-> [k \in DOMAIN d.map \cup {key} |->
                        IF k = key THEN value ELSE d.map[k]]]

\* results['sections'][key] = value on a dict kept as (order, map): a new key
\* goes last, an existing key keeps its place
DictSet(d, key, value) ==
    [order |-> IF key \in DOMAIN d.map THEN d.order ELSE Append(d.order, key),
     map   |-> [k \in DOMAIN d.map \cup {key} |->
                   IF k = key THEN value ELSE d.map[k]]]

EmptyDict == [order |-> <<>>, map |-> <<>>]

\* sum(1 for s in results['sections'].values() if s.get('status') == st)
CountStatus(d, st) == Cardinality({k \in DOMAIN d.map : Get(d.map[k], "status") = st})

(***************************************************************************)
(* The cache files (_load_from_cache, _save_to_cache, clear_cache)         *)
(***************************************************************************)
\* pickle.dump / pickle.load of a bundle
Pickle(data) == [ok |-> TRUE, pickled |-> data]
\* a load that gives back the sections and an empty summary
UnpickleWithoutSummary(blob) == [blob.pickled EXCEPT !.summary = <<>>]
Unpickle(blob) == blob.pickled

File(blob, mtime) == [file |-> TRUE, blob |-> blob, mtime |-> mtime]

\* cache_file.exists()
Exists(key) == cache[key].file

\* open(cache_file, 'rb') and pickle.load(f): "ok", or what makes them raise:
\* the file is gone, the read fails (io), or the content does not unpickle
ReadOutcome(key, io) ==
    IF ~cache[key].file THEN "absent_vanished"
    ELSE IF io = "ioerror" THEN "absent_ioerror"
    ELSE IF ~cache[key].blob.ok THEN "absent_corrupt"
    ELSE "ok"

\* a freshness test that accepts an entry of exactly one hour
IsFreshInclusive(cache_age) == cache_age <= TTL

\* cache_age < 3600
IsFresh(cache_age) == cache_age < TTL

\* _save_to_cache: the files after the call.  open(cache_file, 'wb') may fail
\* (nothing is written); it truncates the file, and pickle.dump may then fail,
\* which leaves a file that does not unpickle
SaveToCache(files, key, data, outcome, t) ==
    CASE outcome = "ok" -> [files EXCEPT ![key] = File(Pickle(data), t)]
      [] outcome = "open_fails" -> files
      [] outcome = "dump_fails" -> [files EXCEPT ![key] = File(Corrupt, t)]

SaveOutcomes == {"ok", "open_fails", "dump_fails"}

\* a _save_to_cache without the except clause: a failed write raises
SaveRaisesOnFailure(outcome) == outcome # "ok"

\* whether _save_to_cache raises to its caller: `except Exception` catches
\* what open and pickle.dump raise and only prints a warning
SaveRaises(outcome) == FALSE

(***************************************************************************)
(* Calls of compute_all_metrics                                            *)
(***************************************************************************)
NoKey == <<>>
NoCall == [none |-> TRUE]
\* what a call has done so far: how often each section function was entered,
\* which of them raised, the saves made (with the file before and after), the
\* result of the lookup with the cache_age it computed, and the path taken
NoHist == [execs |-> <<>>, raised |-> {}, stores |-> <<>>, lookup |-> "none",
           age |-> -1, path |-> "none"]
NoLoad == [cached_data |-> None]
NoOutcome == [kind |-> "none", value |-> None, cause |-> "none"]

\* the inputs the engine is called with: events with phases and a team id,
\* and events of another shape without either
Events1 == [rows |-> 2, cols |-> <<ColA, ColB>>, content |-> 1]
Events2 == [rows |-> 1, cols |-> <<ColA>>, content |-> 1]
Phases1 == [rows |-> 1, cols |-> <<ColA>>, content |-> 1]
Args(ev, ph, id) == [events_df |-> ev, phases_df |-> ph, team_id |-> id]
EngineInputs == {Args(Events1, Phases1, <<"m", "1">>),
                 Args(Events2, None, NoneStr)}
KeyOf(in) == GenerateCacheKey(in.events_df, in.phases_df, in.team_id)
CacheKeys == {KeyOf(in) : in \in EngineInputs}

\* events arguments that are no DataFrame: a list of two dicts (len() works,
\* there is no .columns and no indexing by column name) and None (no len())
ListOfRows == [rows |-> 2]
NoEvents == [unsized |-> TRUE]
IsTable(df) == "cols" \in DOMAIN df
HasLen(x) == "rows" \in DOMAIN x
UnusableInputs == {Args(ListOfRows, None, NoneStr), Args(NoEvents, None, NoneStr)}
CallInputs == EngineInputs \cup UnusableInputs

N == Len(sections)
Queued == [st |-> "queued", t0 |-> 0, result |-> NoResult]

\* the progress callback: each invocation is logged with its arguments and
\* with what the callback did (returned or raised)
Invocation(current, total, message, outcome) ==
    [current |-> current, total |-> total, message |-> message,
     outcome |-> outcome]
CbOutcomes == {"ok", "raise"}

\* the call returns normally with `value` (kind "bundle"), or an exception
\* raised by `cause` leaves it (kind "exception")
EndCallOf(c, kind, value, cause, h, log) ==
    /\ pc' = "idle"
    /\ prev' = ret
    /\ ret' = [key |-> c.cache_key, events_df |-> c.events_df,
               phases_df |-> c.phases_df, team_id |-> c.team_id,
               use_cache |-> c.use_cache, at |-> now, path |-> h.path,
               saved |-> IF h.stores = <<>> THEN "none"
                         ELSE h.stores[Len(h.stores)].outcome,
               kind |-> kind, value |-> value, cause |-> cause]
    /\ hist' = h
    /\ cbLog' = log
    /\ load' = NoLoad
    /\ task' = [i \in SectionIds |-> Queued]
    /\ results' = None
    /\ completed' = 0

EndCall(kind, value, cause, h, log) == EndCallOf(call, kind, value, cause, h, log)

(***************************************************************************)
(* compute_all_metrics, lines 249-257: the cache path                      *)
(***************************************************************************)
\* a call that looks the key up whatever use_cache says
CallIgnoresUseCache(in, use_cache, hasCb) ==
    /\ pc = "idle"
    /\ budget > 0
    /\ budget' = budget - 1
    /\ LET keyed == IsTable(in.events_df)
           c == [events_df |-> in.events_df, phases_df |-> in.phases_df,
                 team_id |-> in.team_id, use_cache |-> use_cache,
                 hasCb |-> hasCb, after_clear |-> cleared,
                 cache_key |-> IF keyed THEN KeyOf(in) ELSE NoKey]
           h == [NoHist EXCEPT !.execs = [i \in SectionIds |-> 0]]
       IN  /\ call' = c
           /\ IF ~keyed
              THEN EndCallOf(c, "exception", None, "input", h, <<>>)
              ELSE /\ pc' = "load_exists"
                   /\ hist' = h
                   /\ cbLog' = <<>>
                   /\ load' = NoLoad
                   /\ task' = [i \in SectionIds |-> Queued]
                   /\ results' = None
                   /\ completed' = 0
                   /\ UNCHANGED <<ret, prev>>
    /\ UNCHANGED <<sections, now, cache, keyIn, keyOut, cleared, fnIn, fnOut,
                   mem, shared>>

\* the call starts; with use_cache the key is computed and _load_from_cache
\* is entered.  _generate_cache_key raises to the caller when events_df has
\* no len() or no .columns.
Call(in, use_cache, hasCb) ==
    /\ pc = "idle"
    /\ budget > 0
    /\ budget' = budget - 1
    /\ LET keyed == use_cache /\ IsTable(in.events_df)
           c == [events_df |-> in.events_df, phases_df |-> in.phases_df,
                 team_id |-> in.team_id, use_cache |-> use_cache,
                 hasCb |-> hasCb, after_clear |-> cleared,
                 cache_key |-> IF keyed THEN KeyOf(in) ELSE NoKey]
           h == [NoHist EXCEPT !.execs = [i \in SectionIds |-> 0]]
       IN  /\ call' = c
           /\ IF use_cache /\ ~keyed
              THEN EndCallOf(c, "exception", None, "input", h, <<>>)
              ELSE /\ pc' = IF use_cache THEN "load_exists" ELSE "init"
                   /\ hist' = h
                   /\ cbLog' = <<>>
                   /\ load' = NoLoad
                   /\ task' = [i \in SectionIds |-> Queued]
                   /\ results' = None
                   /\ completed' = 0
                   /\ UNCHANGED <<ret, prev>>
    /\ UNCHANGED <<sections, now, cache, keyIn, keyOut, cleared, fnIn, fnOut,
                   mem, shared>>

\* a _load_from_cache without the except clause: what open, pickle.load or
\* stat raise leaves the call
LoadPropagates(why) ==
    /\ pc' = IF why = "absent_nofile" THEN "init" ELSE "raised"
    /\ load' = NoLoad
    /\ hist' = [hist EXCEPT !.lookup = why]

\* _load_from_cache returns None: there is no file, or the except clause has
\* caught what open, pickle.load or stat raised
LoadReturnsNone(why) ==
    /\ pc' = "init"
    /\ load' = NoLoad
    /\ hist' = [hist EXCEPT !.lookup = why]

\* if cache_file.exists():
LoadExists ==
    /\ pc = "load_exists"
    /\ IF Exists(call.cache_key)
       THEN pc' = "load_read" /\ UNCHANGED <<load, hist>>
       ELSE LoadReturnsNone("absent_nofile")
    /\ UNCHANGED <<sections, now, cache, call, task, results, completed, cbLog,
                   ret, prev, budget, keyIn, keyOut, cleared, fnIn, fnOut,
                   mem, shared>>

\* with open(cache_file, 'rb') as f: cached_data = pickle.load(f)
LoadRead(io) ==
    /\ pc = "load_read"
    /\ IF ReadOutcome(call.cache_key, io) # "ok"
       THEN LoadReturnsNone(ReadOutcome(call.cache_key, io))
       ELSE /\ load' = [cached_data |-> Unpickle(cache[call.cache_key].blob)]
            /\ pc' = "load_stat"
            /\ UNCHANGED hist
    /\ UNCHANGED <<sections, now, cache, call, task, results, completed, cbLog,
                   ret, prev, budget, keyIn, keyOut, cleared, fnIn, fnOut,
                   mem, shared>>

\* a lookup that touches the file it returns, so that a hit renews the entry
LoadStatRefreshes ==
    /\ pc = "load_stat"
    /\ IF ~Exists(call.cache_key)
       THEN LoadReturnsNone("absent_vanished") /\ UNCHANGED cache
       ELSE IF IsFresh(now - cache[call.cache_key].mtime)
       THEN /\ pc' = "hit"
            /\ hist' = [hist EXCEPT !.lookup = "hit",
                                    !.age = now - cache[call.cache_key].mtime]
            /\ cache' = [cache EXCEPT ![call.cache_key].mtime = now]
            /\ UNCHANGED load
       ELSE /\ pc' = "init"
            /\ load' = NoLoad
            /\ hist' = [hist EXCEPT !.lookup = "absent_stale",
                                    !.age = now - cache[call.cache_key].mtime]
            /\ UNCHANGED cache
    /\ UNCHANGED <<sections, now, call, task, results, completed, cbLog,
                   ret, prev, budget, keyIn, keyOut, cleared, fnIn, fnOut,
                   mem, shared>>

\* cache_age = time.time() - cache_file.stat().st_mtime; if cache_age < 3600:
\* return cached_data.  stat() raises when the file is gone.
LoadStat ==
    /\ pc = "load_stat"
    /\ IF ~Exists(call.cache_key)
       THEN LoadReturnsNone("absent_vanished")
       ELSE IF IsFresh(now - cache[call.cache_key].mtime)
       THEN /\ pc' = "hit"
            /\ hist' = [hist EXCEPT !.lookup = "hit",
                                    !.age = now - cache[call.cache_key].mtime]
            /\ UNCHANGED load
       ELSE /\ pc' = "init"
            /\ load' = NoLoad
            /\ hist' = [hist EXCEPT !.lookup = "absent_stale",
                                    !.age = now - cache[call.cache_key].mtime]
    /\ UNCHANGED <<sections, now, cache, call, task, results, completed, cbLog,
                   ret, prev, budget, keyIn, keyOut, cleared, fnIn, fnOut,
                   mem, shared>>

\* a cache hit that reports the running count `completed` as current
HitReturnReportsCompleted(cb) ==
    /\ pc = "hit"
    /\ LET log == IF call.hasCb
                  THEN <<Invocation(completed, N, <<"Loaded from cache">>, cb)>>
                  ELSE <<>>
           h == [hist EXCEPT !.path = "hit"]
       IN  IF call.hasCb /\ cb = "raise"
           THEN EndCall("exception", None, "callback", h, log)
           ELSE EndCall("bundle", load.cached_data, "none", h, log)
    /\ UNCHANGED <<sections, now, cache, call, budget, keyIn, keyOut, cleared, fnIn, fnOut,
                   mem, shared>>

\* if cached_results is not None: progress_callback(n, n, "Loaded from
\* cache"); return cached_results
HitReturn(cb) ==
    /\ pc = "hit"
    /\ LET log == IF call.hasCb
                  THEN <<Invocation(N, N, <<"Loaded from cache">>, cb)>>
                  ELSE <<>>
           h == [hist EXCEPT !.path = "hit"]
       IN  IF call.hasCb /\ cb = "raise"
           THEN EndCall("exception", None, "callback", h, log)
           ELSE EndCall("bundle", load.cached_data, "none", h, log)
    /\ UNCHANGED <<sections, now, cache, call, budget, keyIn, keyOut, cleared, fnIn, fnOut,
                   mem, shared>>

(***************************************************************************)
(* compute_all_metrics, lines 259-326: the compute path                    *)
(***************************************************************************)
\* a results literal that takes total_phases from the events table
InitResultsCountsEventsTwice ==
    /\ pc = "init"
    /\ IF ~HasLen(call.events_df)
       THEN EndCall("exception", None, "input", hist, cbLog)
       ELSE /\ results' = [team_id |-> call.team_id,
                           sections |-> EmptyDict,
                           summary |-> ("total_sections" :> N)
                                       @@ ("total_events" :> call.events_df.rows)
                                       @@ ("total_phases" :> call.events_df.rows)
                                       @@ ("computation_start" :> now)]
            /\ task' = [i \in SectionIds |-> Queued]
            /\ completed' = 0
            /\ hist' = [hist EXCEPT !.path = "compute"]
            /\ pc' = "collect"
            /\ UNCHANGED <<load, cbLog, ret, prev>>
    /\ UNCHANGED <<sections, now, cache, call, budget, keyIn, keyOut, cleared, fnIn, fnOut,
                   mem, shared>>

\* results = {...}; every section is submitted to the executor; completed = 0.
\* len(events_df) in the results literal raises to the caller when events_df
\* has no len().
InitResults ==
    /\ pc = "init"
    /\ IF ~HasLen(call.events_df)
       THEN EndCall("exception", None, "input", hist, cbLog)
       ELSE /\ results' = [team_id |-> call.team_id,
                           sections |-> EmptyDict,
                           summary |-> ("total_sections" :> N)
                                       @@ ("total_events" :> call.events_df.rows)
                                       @@ ("total_phases" :>
                                              IF call.phases_df # None
                                              THEN call.phases_df.rows ELSE 0)
                                       @@ ("computation_start" :> now)]
            /\ task' = [i \in SectionIds |-> Queued]
            /\ completed' = 0
            /\ hist' = [hist EXCEPT !.path = "compute"]
            /\ pc' = "collect"
            /\ UNCHANGED <<load, cbLog, ret, prev>>
    /\ UNCHANGED <<sections, now, cache, call, budget, keyIn, keyOut, cleared, fnIn, fnOut,
                   mem, shared>>

Running == {i \in SectionIds : task[i].st = "running"}
Pending == {i \in SectionIds : task[i].st = "queued"}
\* tasks whose section function will never return; each keeps its worker
Hung == {i \in SectionIds : task[i].st = "hung"}

\* a pool that starts a thread for every queued task
WorkerStartUnbounded(i) ==
    /\ pc \in {"collect", "unwind"}
    /\ i \in Pending
    /\ \A j \in Pending : IndexOf(i) <= IndexOf(j)
    /\ task' = [task EXCEPT ![i] = [st |-> "running", t0 |-> now,
                                    result |-> NoResult]]
    /\ hist' = [hist EXCEPT !.execs[i] = @ + 1]
    /\ UNCHANGED <<sections, now, cache, pc, call, load, results, completed,
                   cbLog, ret, prev, budget, keyIn, keyOut, cleared, fnIn, fnOut,
                   mem, shared>>

\* a worker of the pool takes the next task of the executor's queue (tasks
\* are queued in registry order) when fewer than max_workers are running,
\* and enters compute_section: start_time = time.time(), then the call of
\* section['function']
WorkerStart(i) ==
    /\ pc \in {"collect", "unwind"}
    /\ i \in Pending
    /\ \A j \in Pending : IndexOf(i) <= IndexOf(j)
    /\ Cardinality(Running \cup Hung) < MaxWorkers
    /\ task' = [task EXCEPT ![i] = [st |-> "running", t0 |-> now,
                                    result |-> NoResult]]
    /\ hist' = [hist EXCEPT !.execs[i] = @ + 1]
    /\ UNCHANGED <<sections, now, cache, pc, call, load, results, completed,
                   cbLog, ret, prev, budget, keyIn, keyOut, cleared, fnIn, fnOut,
                   mem, shared>>

\* a compute_section that counts and reports its own completion from the
\* worker thread
WorkerFinishReports(i, raised) ==
    /\ pc \in {"collect", "unwind"}
    /\ i \in Running
    /\ ~IsTable(call.events_df) => raised
    /\ task' = [task EXCEPT ![i] =
                   [st |-> "done", t0 |-> task[i].t0,
                    result |-> ComputeSection(SectionOf(i), call.events_df,
                                  call.phases_df, raised, task[i].t0, now)]]
    /\ hist' = [hist EXCEPT !.raised = IF raised THEN @ \cup {i} ELSE @]
    /\ completed' = completed + 1
    /\ cbLog' = IF call.hasCb
                THEN Append(cbLog, Invocation(completed + 1, N,
                               <<"Completed: ", SectionOf(i).name>>, "ok"))
                ELSE cbLog
    /\ UNCHANGED <<sections, now, cache, pc, call, load, results,
                   ret, prev, budget, keyIn, keyOut, cleared, fnIn, fnOut,
                   mem, shared>>

\* section['function'] returns or raises, compute_section returns its dict
\* and the future is done.  Every section function reads events_df.columns
\* or indexes events_df by a column name, which raises when events_df is no
\* DataFrame.
WorkerFinish(i, raised) ==
    /\ pc \in {"collect", "unwind"}
    /\ i \in Running
    /\ ~IsTable(call.events_df) => raised
    /\ task' = [task EXCEPT ![i] =
                   [st |-> "done", t0 |-> task[i].t0,
                    result |-> ComputeSection(SectionOf(i), call.events_df,
                                  call.phases_df, raised, task[i].t0, now)]]
    /\ hist' = [hist EXCEPT !.raised = IF raised THEN @ \cup {i} ELSE @]
    /\ UNCHANGED <<sections, now, cache, pc, call, load, results, completed,
                   cbLog, ret, prev, budget, keyIn, keyOut, cleared, fnIn, fnOut,
                   mem, shared>>

\* section['function'] enters a loop or a wait that never ends: the future
\* never becomes done, and nothing in compute_section or in the pool ends it
WorkerHang(i) ==
    /\ pc \in {"collect", "unwind"}
    /\ i \in Running
    /\ task' = [task EXCEPT ![i].st = "hung"]
    /\ UNCHANGED <<sections, now, cache, pc, call, load, results, completed,
                   cbLog, ret, prev, hist, budget, keyIn, keyOut, cleared,
                   fnIn, fnOut,
                   mem, shared>>

\* One iteration of `for future in as_completed(future_to_section)`, lines
\* 282-314, for the finished future of section.  cb1 is what the callback does
\* when the try branch invokes it, cb2 when the except branch does.  Gives the
\* new sections dict, the new completed, the invocations made, and whether an
\* exception leaves the loop.
LoopBody(secs, done, section, section_result, hasCb, cb1, cb2) ==
    LET total == N
        stored == DictSet(secs, section.id, section_result)
        inv1 == Invocation(done + 1, total, <<"Completed: ", section.name>>, cb1)
        failed == DictSet(stored, section.id,
                          LoopErrorRecord(section, CallbackErrorText))
        inv2 == Invocation(done + 2, total, <<"Error in: ", section.name>>, cb2)
    IN  IF ~hasCb
        THEN [sections |-> stored, completed |-> done + 1, log |-> <<>>,
              raises |-> FALSE]
        ELSE IF cb1 = "ok"
        THEN [sections |-> stored, completed |-> done + 1, log |-> <<inv1>>,
              raises |-> FALSE]
        ELSE [sections |-> failed, completed |-> done + 2,
              log |-> <<inv1, inv2>>, raises |-> cb2 = "raise"]

\* as_completed yields a finished future and the loop body runs for it; an
\* exception that leaves the loop leaves the `with` block, whose exit waits
\* for the tasks still queued or running
Collect(i, cb1, cb2) ==
    /\ pc = "collect"
    /\ task[i].st = "done"
    /\ LET r == LoopBody(results.sections, completed, SectionOf(i),
                         task[i].result, call.hasCb, cb1, cb2)
       IN  /\ results' = [results EXCEPT !.sections = r.sections]
           /\ completed' = r.completed
           /\ cbLog' = cbLog \o r.log
           /\ pc' = IF r.raises THEN "unwind" ELSE "collect"
    /\ task' = [task EXCEPT ![i].st = "yielded"]
    /\ UNCHANGED <<sections, now, cache, call, load, ret, prev, budget, hist,
                   keyIn, keyOut, cleared, fnIn, fnOut,
                   mem, shared>>

\* lines 317-320: the summary statistics
Summarise(r, t) ==
    [r EXCEPT !.summary =
        ("computation_end" :> t)
        @@ ("total_time" :> t - r.summary["computation_start"])
        @@ ("successful_sections" :> CountStatus(r.sections, "success"))
        @@ ("failed_sections" :> CountStatus(r.sections, "error"))
        @@ r.summary]

\* a compute path that saves the results before the summary is completed
FinishStoresBeforeSummary(save) ==
    /\ pc = "collect"
    /\ \A i \in SectionIds : task[i].st = "yielded"
    /\ LET bundle == Summarise(results, now)
       IN  /\ IF call.use_cache
              THEN /\ cache' = SaveToCache(cache, call.cache_key, results, save, now)
                   /\ EndCall("bundle", bundle, "none",
                              [hist EXCEPT !.stores =
                                  Append(@, [key |-> call.cache_key,
                                             data |-> results,
                                             outcome |-> save,
                                             before |-> cache[call.cache_key],
                                             after |-> cache'[call.cache_key]])],
                              cbLog)
              ELSE /\ cache' = cache
                   /\ EndCall("bundle", bundle, "none", hist, cbLog)
    /\ cleared' = IF call.use_cache THEN FALSE ELSE cleared
    /\ UNCHANGED <<sections, now, call, budget, keyIn, keyOut, fnIn, fnOut,
                   mem, shared>>

\* the loop has yielded every future: the executor is shut down, the summary
\* is added, the bundle is saved when use_cache, and returned
Finish(save) ==
    /\ pc = "collect"
    /\ \A i \in SectionIds : task[i].st = "yielded"
    /\ LET bundle == Summarise(results, now)
       IN  /\ IF call.use_cache
              THEN /\ cache' = SaveToCache(cache, call.cache_key, bundle, save, now)
                   /\ EndCall(IF SaveRaises(save) THEN "exception" ELSE "bundle",
                              IF SaveRaises(save) THEN None ELSE bundle,
                              IF SaveRaises(save) THEN "cache_write" ELSE "none",
                              [hist EXCEPT !.stores =
                                  Append(@, [key |-> call.cache_key,
                                             data |-> bundle,
                                             outcome |-> save,
                                             before |-> cache[call.cache_key],
                                             after |-> cache'[call.cache_key]])],
                              cbLog)
              ELSE /\ cache' = cache
                   /\ EndCall("bundle", bundle, "none", hist, cbLog)
    /\ cleared' = IF call.use_cache THEN FALSE ELSE cleared
    /\ UNCHANGED <<sections, now, call, budget, keyIn, keyOut, fnIn, fnOut,
                   mem, shared>>

\* an executor left with shutdown(wait=False): the exception reaches the
\* caller while tasks are still queued or running
UnwindWithoutWaiting ==
    /\ pc = "unwind"
    /\ EndCall("exception", None, "callback", hist, cbLog)
    /\ UNCHANGED <<sections, now, cache, call, budget, keyIn, keyOut, cleared, fnIn, fnOut,
                   mem, shared>>

\* the exception of the callback reaches the caller once the executor's
\* shutdown(wait=True) has seen every task finish
Unwind ==
    /\ pc = "unwind"
    /\ \A i \in SectionIds : task[i].st \in {"done", "yielded"}
    /\ EndCall("exception", None, "callback", hist, cbLog)
    /\ UNCHANGED <<sections, now, cache, call, budget, keyIn, keyOut, cleared, fnIn, fnOut,
                   mem, shared>>

(***************************************************************************)
(* The environment: the clock, clear_cache, damage to a file               *)
(***************************************************************************)
Tick ==
    /\ pc = "idle"
    /\ now < MaxTicks * ClockStep
    /\ now' = now + ClockStep
    /\ UNCHANGED <<sections, cache, pc, call, load, task, results, completed,
                   cbLog, ret, prev, hist, budget, keyIn, keyOut, cleared, fnIn, fnOut,
                   mem, shared>>

\* a clear_cache that unlinks the first file the glob yields and stops
ClearCacheFirstOnly ==
    /\ pc \in {"idle", "load_read", "load_stat"}
    /\ \E k \in CacheKeys : cache[k].file
    /\ LET first == CHOOSE k \in CacheKeys : cache[k].file
       IN  cache' = [cache EXCEPT ![first] = NoFile]
    /\ cleared' = TRUE
    /\ UNCHANGED <<sections, now, pc, call, load, task, results, completed,
                   cbLog, ret, prev, hist, budget, keyIn, keyOut, fnIn, fnOut,
                   mem, shared>>

\* clear_cache: every *.pkl file is unlinked, by this engine between two
\* calls, or by another engine on the same cache_dir while this one is in
\* _load_from_cache (with no file in cache_dir the loop body never runs)
ClearCache ==
    /\ pc \in {"idle", "load_read", "load_stat"}
    /\ \E k \in CacheKeys : cache[k].file
    /\ cache' = [k \in CacheKeys |-> NoFile]
    /\ cleared' = TRUE
    /\ UNCHANGED <<sections, now, pc, call, load, task, results, completed,
                   cbLog, ret, prev, hist, budget, keyIn, keyOut, fnIn, fnOut,
                   mem, shared>>

(***************************************************************************)
(* The engine                                                              *)
(***************************************************************************)
NoArgs == <<>>

InitEngine(n, calls) ==
    /\ sections = SubSeq(Registry, 1, n)
    /\ now = 0
    /\ cache = [k \in CacheKeys |-> NoFile]
    /\ pc = "idle"
    /\ call = NoCall
    /\ load = NoLoad
    /\ task = [i \in {Registry[k].id : k \in 1..n} |-> Queued]
    /\ results = None
    /\ completed = 0
    /\ cbLog = <<>>
    /\ ret = NoOutcome
    /\ prev = NoOutcome
    /\ hist = NoHist
    /\ budget = calls
    /\ cleared = FALSE

Init ==
    /\ InitEngine(CacheSections, MaxCalls)
    /\ keyIn = NoArgs
    /\ keyOut = NoArgs
    /\ fnIn = NoArgs
    /\ fnOut = NoArgs
    /\ mem = NoArgs
    /\ shared = NoArgs

Next ==
    \/ \E in \in CallInputs, use_cache \in BOOLEAN, hasCb \in BOOLEAN :
          Call(in, use_cache, hasCb)
    \/ LoadExists
    \/ \E io \in {"ok", "ioerror"} : LoadRead(io)
    \/ LoadStat
    \/ \E cb \in CbOutcomes : HitReturn(cb)
    \/ InitResults
    \/ \E i \in SectionIds : WorkerStart(i)
    \/ \E i \in SectionIds, raised \in BOOLEAN : WorkerFinish(i, raised)
    \/ \E i \in SectionIds, cb1 \in CbOutcomes, cb2 \in CbOutcomes :
          Collect(i, cb1, cb2)
    \/ \E save \in SaveOutcomes : Finish(save)
    \/ Unwind
    \/ Tick
    \/ ClearCache

Spec == Init /\ [][Next]_vars

(***************************************************************************)
(* One call of an engine with a longer registry and an empty cache_dir     *)
(***************************************************************************)
InitCompute ==
    /\ InitEngine(NumSections, 1)
    /\ keyIn = NoArgs
    /\ keyOut = NoArgs
    /\ fnIn = NoArgs
    /\ fnOut = NoArgs
    /\ mem = NoArgs
    /\ shared = NoArgs

NextCompute ==
    \/ \E in \in CallInputs, use_cache \in BOOLEAN, hasCb \in BOOLEAN :
          Call(in, use_cache, hasCb)
    \/ LoadExists
    \/ InitResults
    \/ \E i \in SectionIds : WorkerStart(i)
    \/ \E i \in SectionIds, raised \in BOOLEAN : WorkerFinish(i, raised)
    \/ \E i \in SectionIds, cb1 \in CbOutcomes, cb2 \in CbOutcomes :
          Collect(i, cb1, cb2)
    \/ \E save \in SaveOutcomes : Finish(save)
    \/ Unwind
    \/ Tick
    \/ ClearCache

SpecCompute == InitCompute /\ [][NextCompute]_vars

(***************************************************************************)
(* One call, caching off, of an engine with more sections than the pool    *)
(* has workers.  The workers are scheduled fairly: a thread of the pool    *)
(* that can take a task does, and a section function returns or raises.    *)
(***************************************************************************)
InitPool ==
    /\ InitEngine(PoolSections, 1)
    /\ keyIn = NoArgs
    /\ keyOut = NoArgs
    /\ fnIn = NoArgs
    /\ fnOut = NoArgs
    /\ mem = NoArgs
    /\ shared = NoArgs

NextPool ==
    \/ \E hasCb \in BOOLEAN : Call(Args(Events2, None, NoneStr), FALSE, hasCb)
    \/ InitResults
    \/ \E i \in SectionIds : WorkerStart(i)
    \/ \E i \in SectionIds : WorkerFinish(i, FALSE)
    \/ \E i \in SectionIds, cb1 \in CbOutcomes, cb2 \in CbOutcomes :
          Collect(i, cb1, cb2)
    \/ Finish("ok")
    \/ Unwind

SpecPool ==
    /\ InitPool
    /\ [][NextPool]_vars
    /\ WF_vars(\E i \in SectionIds : WorkerStart(i))
    /\ WF_vars(\E i \in SectionIds : WorkerFinish(i, FALSE))

(***************************************************************************)
(* One call, caching off, in which a section function may never return.    *)
(* The threads are scheduled fairly: a worker that can take a task does, a *)
(* section function that is not hung returns or raises, and the calling    *)
(* thread runs its loop whenever a future is done.                         *)
(***************************************************************************)
InitBlocking ==
    /\ InitEngine(NumSections, 1)
    /\ keyIn = NoArgs
    /\ keyOut = NoArgs
    /\ fnIn = NoArgs
    /\ fnOut = NoArgs
    /\ mem = NoArgs
    /\ shared = NoArgs

NextBlocking ==
    \/ \E hasCb \in BOOLEAN : Call(Args(Events2, None, NoneStr), FALSE, hasCb)
    \/ InitResults
    \/ \E i \in SectionIds : WorkerStart(i)
    \/ \E i \in SectionIds, raised \in BOOLEAN : WorkerFinish(i, raised)
    \/ \E i \in SectionIds : WorkerHang(i)
    \/ \E i \in SectionIds, cb1 \in CbOutcomes, cb2 \in CbOutcomes :
          Collect(i, cb1, cb2)
    \/ Finish("ok")
    \/ Unwind

SpecBlocking ==
    /\ InitBlocking
    /\ [][NextBlocking]_vars
    /\ WF_vars(InitResults)
    /\ WF_vars(\E i \in SectionIds : WorkerStart(i))
    /\ WF_vars(\E i \in SectionIds, raised \in BOOLEAN : WorkerFinish(i, raised))
    /\ WF_vars(\E i \in SectionIds, cb1 \in CbOutcomes, cb2 \in CbOutcomes :
                  Collect(i, cb1, cb2))
    /\ WF_vars(Finish("ok"))
    /\ WF_vars(Unwind)

(***************************************************************************)
(* Calls with use_cache on a cache_dir that already holds an entry: the    *)
(* file a store of an earlier run of the program left at time 0            *)
(***************************************************************************)
LookupInput == Args(Events2, None, NoneStr)

\* the bundle a call with LookupInput computes and stores at time 0
EarlierBundle ==
    LET r == [team_id |-> NoneStr,
              sections |-> EmptyDict,
              summary |-> ("total_sections" :> CacheSections)
                          @@ ("total_events" :> Events2.rows)
                          @@ ("total_phases" :> 0)
                          @@ ("computation_start" :> 0)]
        Stored(d, k) == DictSet(d, Registry[k].id,
                                ComputeSection(Registry[k], Events2, None,
                                               FALSE, 0, 0))
        RECURSIVE Fill(_, _)
        Fill(d, k) == IF k > CacheSections THEN d ELSE Fill(Stored(d, k), k + 1)
    IN  Summarise([r EXCEPT !.sections = Fill(EmptyDict, 1)], 0)

InitLookup ==
    /\ sections = SubSeq(Registry, 1, CacheSections)
    /\ now = 0
    /\ cache \in {[k \in CacheKeys |-> IF k = KeyOf(LookupInput) THEN f ELSE NoFile] :
                     f \in {File(Pickle(EarlierBundle), 0), File(Corrupt, 0)}}
    /\ pc = "idle"
    /\ call = NoCall
    /\ load = NoLoad
    /\ task = [i \in {Registry[k].id : k \in 1..CacheSections} |-> Queued]
    /\ results = None
    /\ completed = 0
    /\ cbLog = <<>>
    /\ ret = NoOutcome
    /\ prev = NoOutcome
    /\ hist = NoHist
    /\ budget = MaxCalls
    /\ cleared = FALSE
    /\ keyIn = NoArgs
    /\ keyOut = NoArgs
    /\ fnIn = NoArgs
    /\ fnOut = NoArgs
    /\ mem = NoArgs
    /\ shared = NoArgs

NextLookup ==
    \/ Call(LookupInput, TRUE, FALSE)
    \/ LoadExists
    \/ \E io \in {"ok", "ioerror"} : LoadRead(io)
    \/ LoadStat
    \/ HitReturn("ok")
    \/ InitResults
    \/ \E i \in SectionIds : WorkerStart(i)
    \/ \E i \in SectionIds : WorkerFinish(i, FALSE)
    \/ \E i \in SectionIds : Collect(i, "ok", "ok")
    \/ \E save \in SaveOutcomes : Finish(save)
    \/ Tick
    \/ ClearCache

SpecLookup == InitLookup /\ [][NextLookup]_vars

(***************************************************************************)
(* _generate_cache_key applied to two argument tuples                      *)
(***************************************************************************)
KeyInputs == [events_df : EventTables, phases_df : {None} \cup PhaseTables,
              team_id : TeamIds]

InitKey ==
    /\ InitEngine(CacheSections, 0)
    /\ keyIn \in KeyInputs \X KeyInputs
    /\ keyOut = NoArgs
    /\ fnIn = NoArgs
    /\ fnOut = NoArgs
    /\ mem = NoArgs
    /\ shared = NoArgs

GenerateKeys ==
    /\ keyOut = NoArgs
    /\ keyOut' = <<KeyString(keyIn[1].events_df, keyIn[1].phases_df,
                             keyIn[1].team_id),
                   KeyString(keyIn[2].events_df, keyIn[2].phases_df,
                             keyIn[2].team_id)>>
    /\ UNCHANGED <<engineVars, keyIn, fnIn, fnOut,
                   mem, shared>>

NextKey == GenerateKeys

SpecKey == InitKey /\ [][NextKey]_vars

(***************************************************************************)
(* Metric functions on tables that lack columns (metrics/possession.py,    *)
(* metrics/team_identity.py).  A table is the set of its column names and  *)
(* whether it has rows of a player in a build_up phase; a metric value is  *)
(* "computed" from the data or is the "default" of an else branch.         *)
(***************************************************************************)
PhaseType == "team_in_possession_phase_type"
LengthStart == "team_in_possession_length_start"
WidthStart == "team_in_possession_width_start"

\* columns that a table may lack, and columns that every table has
OptionalColumns == {"pass_outcome", "pass_range", "phase_index",
                    "channel_start", "player_position", PhaseType,
                    LengthStart, WidthStart}
OtherColumns == {"player_id", "player_name", "duration", "carry",
                 "distance_covered", "pass_ahead", "lead_to_shot",
                 "team_possession_loss_in_phase",
                 "current_team_in_possession_next_phase_type"}
MetricTables == [cols : {OtherColumns \cup c : c \in SUBSET OptionalColumns},
                 buildup : BOOLEAN]

FnRaises == [raised |-> TRUE, metrics |-> <<>>]
FnReturns(m) == [raised |-> FALSE, metrics |-> m]

\* x if cond else 0
IfElse(cond) == IF cond THEN "computed" ELSE "default"

\* deep_buildup_analysis: the column each key of the dict literal tests
BuildupColumns ==
    ("short_pass_buildup_rate" :> {"pass_range"})
    @@ ("long_ball_rate" :> {"pass_range"})
    @@ ("bypass_to_direct_phase" :> {"current_team_in_possession_next_phase_type"})
    @@ ("avg_buildup_duration" :> {"duration"})
    @@ ("carry_progression_rate" :> {"carry"})
    @@ ("carry_distance_avg" :> {"carry", "distance_covered"})
    @@ ("buildup_success_rate" :> {"team_possession_loss_in_phase"})
    @@ ("buildup_to_shot_rate" :> {"lead_to_shot"})
    @@ ("total_buildup_phases" :> {"phase_index"})

\* possession.py 11-49
DeepBuildupAnalysis(t) ==
    IF PhaseType \notin t.cols THEN FnRaises
    ELSE IF ~t.buildup THEN FnReturns(<<>>)
    ELSE FnReturns(
        [k \in DOMAIN BuildupColumns |-> IfElse(BuildupColumns[k] \subseteq t.cols)]
        @@ [k \in IF "channel_start" \in t.cols
                   THEN {"buildup_channel_usage"} ELSE {} |-> "computed"])

\* possession.py 52-93: the role_metrics of a player with build-up rows
BuildupPlayerRoles(t) ==
    IF PhaseType \notin t.cols THEN FnRaises
    ELSE IF ~t.buildup THEN FnReturns(<<>>)
    ELSE IF "player_id" \notin t.cols THEN FnRaises
    ELSE FnReturns(
        ("player_id" :> "computed")
        @@ ("player_name" :> IfElse("player_name" \in t.cols))
        @@ ("position" :> IfElse("player_position" \in t.cols))
        @@ ("buildup_involvements" :> "computed")
        @@ ("buildup_involvements_per_phase" :> IfElse("phase_index" \in t.cols))
        @@ ("progressive_passes" :> IfElse("pass_ahead" \in t.cols))
        @@ ("progressive_carries" :> IfElse("carry" \in t.cols))
        @@ ("pass_success_rate" :> IfElse("pass_outcome" \in t.cols)))

\* team_identity.py 35-64
AnalyzeChannelAsymmetry(t) ==
    [k \in IF {"player_position", "channel_start"} \subseteq t.cols
            THEN {"lb_wide_rate", "rb_wide_rate", "fullback_asymmetry"}
            ELSE {} |-> "computed"]

\* team_identity.py 11-32: the phase-type column is indexed in the first
\* iteration of the loop, the length and width columns for a phase type
\* that has rows, the length column again under phase_index
AnalyzeFormationFluidity(t) ==
    IF PhaseType \notin t.cols THEN FnRaises
    ELSE IF t.buildup /\ ~({LengthStart, WidthStart} \subseteq t.cols) THEN FnRaises
    ELSE IF "phase_index" \in t.cols /\ LengthStart \notin t.cols THEN FnRaises
    ELSE FnReturns(
        [k \in IF t.buildup
                THEN {"team_length_avg_build_up", "team_width_avg_build_up"}
                ELSE {} |-> "computed"]
        @@ [k \in IF "phase_index" \in t.cols
                   THEN {"length_change_per_phase"} ELSE {} |-> "computed"]
        @@ AnalyzeChannelAsymmetry(t))

MetricFunctions == {"deep_buildup_analysis", "buildup_player_roles",
                    "analyze_formation_fluidity"}
ApplyFunction(f, t) ==
    CASE f = "deep_buildup_analysis" -> DeepBuildupAnalysis(t)
      [] f = "buildup_player_roles" -> BuildupPlayerRoles(t)
      [] f = "analyze_formation_fluidity" -> AnalyzeFormationFluidity(t)

\* the registry section whose function calls f
SectionCalling(f) == IF f = "analyze_formation_fluidity" THEN Registry[1]
                     ELSE Registry[2]

InitSection ==
    /\ InitEngine(CacheSections, 0)
    /\ keyIn = NoArgs
    /\ keyOut = NoArgs
    /\ fnIn \in [f : MetricFunctions, table : MetricTables]
    /\ fnOut = NoArgs
    /\ mem = NoArgs
    /\ shared = NoArgs

\* compute_section runs the section function, in which f is applied to the
\* table: what f raises leaves the section function and is caught by
\* compute_section
RunSection ==
    /\ fnOut = NoArgs
    /\ mem = NoArgs
    /\ shared = NoArgs
    /\ LET r == ApplyFunction(fnIn.f, fnIn.table)
           rec == ComputeSection(SectionCalling(fnIn.f),
                                 [content |-> 1], None, r.raised, 0, 0)
       IN  fnOut' = [status |-> rec["status"], raised |-> r.raised,
                     metrics |-> r.metrics]
    /\ UNCHANGED <<engineVars, keyIn, keyOut, fnIn, mem, shared>>

NextSection == RunSection

SpecSection == InitSection /\ [][NextSection]_vars

(***************************************************************************)
(* The input tables as objects shared by concurrently running sections     *)
(* (metrics/momentum.py, metrics/consistency.py).  mem.heap gives the      *)
(* column set of every table object; the events and phases objects are the *)
(* ones the caller passed, a copy() allocates a new object.  Each of two   *)
(* worker threads runs the functions of its section one after the other;   *)
(* the frame of a function binds its local name events_df to an object.    *)
(***************************************************************************)
EventsObj == 1
PhasesObj == 2

\* columns that the functions test for, and columns every events table has
TestedColumns == {"minute_start", "pass_outcome", "team_score",
                  "opponent_team_score", "period"}
BaseColumns == {"player_id"}

\* the functions the section functions analyze_momentum and
\* analyze_consistency call, in the order of the calls
SectionCalls ==
    ("momentum" :> <<"analyze_performance_by_period",
                     "analyze_momentum_shifts",
                     "analyze_game_state_performance">>)
    @@ ("consistency" :> <<"analyze_pass_consistency",
                           "analyze_phase_consistency",
                           "analyze_player_consistency">>)
TableThreads == DOMAIN SectionCalls

\* the columns whose presence lets a function derive a helper column, and
\* the helper column it assigns
DerivesFrom ==
    ("analyze_momentum_shifts" :> {"minute_start"})
    @@ ("analyze_game_state_performance" :> {"team_score", "opponent_team_score"})
    @@ ("analyze_pass_consistency" :> {"pass_outcome", "minute_start"})
HelperColumn ==
    ("analyze_momentum_shifts" :> "time_window")
    @@ ("analyze_game_state_performance" :> "game_state_type")
    @@ ("analyze_pass_consistency" :> "time_window")

\* an assignment events_df = events_df that allocates nothing
CopyIsAlias(heap, o) == [heap |-> heap, obj |-> o]

\* events_df.copy(): a new object with the columns (and rows) of o
CopyTable(heap, o) ==
    LET new == 1 + Cardinality(DOMAIN heap)
    IN  [heap |-> [x \in DOMAIN heap \cup {new} |->
                      IF x = new THEN heap[o] ELSE heap[x]],
         obj |-> new]

\* df[column] = ...: the object df refers to gets the column
SetColumn(heap, o, column) == [heap EXCEPT ![o] = @ \cup {column}]

\* the frame of the k-th function of a section: its parameter events_df is
\* bound to the caller's object, nothing has been read yet
EnterFunction(k) == [fn |-> k, at |-> "test", events_df |-> EventsObj,
                     seen |-> {}]

InitTables ==
    /\ InitEngine(CacheSections, 0)
    /\ keyIn = NoArgs
    /\ keyOut = NoArgs
    /\ fnIn = NoArgs
    /\ fnOut = NoArgs
    /\ \E cols \in SUBSET TestedColumns, phases \in BOOLEAN :
          mem = [orig |-> BaseColumns \cup cols,
                 origPhases |-> IF phases THEN {"phase_index"} ELSE {},
                 heap |-> <<BaseColumns \cup cols,
                            IF phases THEN {"phase_index"} ELSE {}>>,
                 frame |-> [th \in TableThreads |-> EnterFunction(1)]]
    /\ shared = NoArgs

FunctionOf(th) == SectionCalls[th][mem.frame[th].fn]

\* the function returns: the next function of the section is entered, or the
\* section function is done
ReturnFrom(th, f) ==
    IF f.fn < Len(SectionCalls[th])
    THEN EnterFunction(f.fn + 1)
    ELSE [f EXCEPT !.at = "done"]

\* `if ... in events_df.columns`: the function reads the columns of the
\* table it was given; a function that derives a helper column goes on when
\* the columns it needs are there, every other function only reads
TestColumns(th) ==
    /\ mem # NoArgs
    /\ mem.frame[th].at = "test"
    /\ LET f == mem.frame[th]
           cols == mem.heap[f.events_df]
           g == [f EXCEPT !.seen = @ \cup {cols}]
       IN  mem' = [mem EXCEPT !.frame[th] =
                      IF FunctionOf(th) \in DOMAIN DerivesFrom
                         /\ DerivesFrom[FunctionOf(th)] \subseteq cols
                      THEN [g EXCEPT !.at = "copy"]
                      ELSE ReturnFrom(th, g)]
    /\ UNCHANGED <<engineVars, keyIn, keyOut, fnIn, fnOut, shared>>

\* events_df = events_df.copy()
CopyEvents(th) ==
    /\ mem # NoArgs
    /\ mem.frame[th].at = "copy"
    /\ LET c == CopyTable(mem.heap, mem.frame[th].events_df)
       IN  mem' = [mem EXCEPT !.heap = c.heap,
                              !.frame[th].events_df = c.obj,
                              !.frame[th].at = "assign"]
    /\ UNCHANGED <<engineVars, keyIn, keyOut, fnIn, fnOut, shared>>

\* events_df['time_window'] = ... / events_df['game_state_type'] = ...
AssignHelper(th) ==
    /\ mem # NoArgs
    /\ mem.frame[th].at = "assign"
    /\ mem' = [mem EXCEPT !.heap = SetColumn(@, mem.frame[th].events_df,
                                             HelperColumn[FunctionOf(th)]),
                          !.frame[th].at = "use"]
    /\ UNCHANGED <<engineVars, keyIn, keyOut, fnIn, fnOut, shared>>

\* the loop over the helper column reads the local table; the function
\* returns its metrics
UseHelper(th) ==
    /\ mem # NoArgs
    /\ mem.frame[th].at = "use"
    /\ HelperColumn[FunctionOf(th)] \in mem.heap[mem.frame[th].events_df]
    /\ mem' = [mem EXCEPT !.frame[th] = ReturnFrom(th, mem.frame[th])]
    /\ UNCHANGED <<engineVars, keyIn, keyOut, fnIn, fnOut, shared>>

NextTables ==
    \/ \E th \in TableThreads : TestColumns(th)
    \/ \E th \in TableThreads : CopyEvents(th)
    \/ \E th \in TableThreads : AssignHelper(th)
    \/ \E th \in TableThreads : UseHelper(th)

SpecTables == InitTables /\ [][NextTables]_vars

(***************************************************************************)
(* One cache file used by several engines on the same cache_dir at once    *)
(* (_load_from_cache, _save_to_cache, clear_cache; no lock, no temporary   *)
(* file, no rename).  The file name refers to an inode or to nothing; an   *)
(* inode holds the chunks written so far.  pickle.dump reaches the file in *)
(* Chunks write calls at increasing offsets and pickle.load takes as many  *)
(* read calls; open(.., 'wb') truncates; unlink removes the name while     *)
(* open descriptors keep the inode.  All of it happens within the hour, so *)
(* every entry is fresh.                                                   *)
(***************************************************************************)
Chunks == 2          \* write calls of one pickle.dump, read calls of one load
Engines == {"A", "B", "C"}
NoPath == 0

\* the k-th chunk of the pickle of the bundle that engine e computed, and
\* the bytes of a range that no write has filled
Chunk(e, k) == [of |-> e, part |-> k]
Hole == [of |-> "nobody", part |-> 0]

\* the file content after a write of chunk c at offset k
WriteAt(content, k, c) ==
    [j \in 1..(IF Len(content) > k THEN Len(content) ELSE k) |->
        IF j = k THEN c
        ELSE IF j <= Len(content) THEN content[j]
        ELSE Hole]

\* pickle.load of the chunks read: the bundle of e when they are the pickle
\* of e; chunks of the pickles of different engines, each at its place, may
\* fit together (pickles of bundles of the same inputs have the same layout)
\* and load as a bundle no engine computed, or not; anything else raises
LoadOutcomes(buf) ==
    IF Len(buf) < Chunks \/ \E k \in 1..Chunks : buf[k] = Hole
    THEN {"raises"}
    ELSE IF \A k \in 1..Chunks : buf[k].of = buf[1].of
    THEN {buf[1].of}
    ELSE {"raises", "mixed"}

IdleEngine == [op |-> "none", at |-> "idle", fd |-> NoPath, k |-> 0,
               buf |-> <<>>, data |-> "none", result |-> "none"]

InitShared ==
    /\ InitEngine(CacheSections, 0)
    /\ keyIn = NoArgs
    /\ keyOut = NoArgs
    /\ fnIn = NoArgs
    /\ fnOut = NoArgs
    /\ mem = NoArgs
    /\ shared = [path |-> NoPath, inodes |-> <<>>,
                 proc |-> [e \in Engines |-> IdleEngine]]

SharedUnchanged == UNCHANGED <<engineVars, keyIn, keyOut, fnIn, fnOut, mem>>

\* an engine reaches the store at the end of a compute path, enters
\* _load_from_cache, or is told to clear the cache
StartOp(e, op) ==
    /\ shared # NoArgs
    /\ shared.proc[e].op = "none"
    /\ shared' = [shared EXCEPT !.proc[e].op = op,
                                !.proc[e].at = CASE op = "store" -> "open_wb"
                                                 [] op = "lookup" -> "exists"
                                                 [] op = "clear" -> "unlink"]
    /\ SharedUnchanged

\* with open(cache_file, 'wb') as f: the file is created or truncated
StoreOpen(e) ==
    /\ shared # NoArgs
    /\ shared.proc[e].at = "open_wb"
    /\ LET new == Len(shared.inodes) + 1
           ino == IF shared.path = NoPath THEN new ELSE shared.path
       IN  shared' = [shared EXCEPT
               !.path = ino,
               !.inodes = IF shared.path = NoPath
                          THEN Append(@, <<>>)
                          ELSE [@ EXCEPT ![ino] = <<>>],
               !.proc[e].fd = ino,
               !.proc[e].k = 1,
               !.proc[e].at = "write"]
    /\ SharedUnchanged

\* pickle.dump(data, f): the next chunk is written at the descriptor's
\* offset; after the last one the file is closed
StoreWrite(e) ==
    /\ shared # NoArgs
    /\ shared.proc[e].at = "write"
    /\ LET p == shared.proc[e]
       IN  shared' = [shared EXCEPT
               !.inodes[p.fd] = WriteAt(@, p.k, Chunk(e, p.k)),
               !.proc[e].k = p.k + 1,
               !.proc[e].at = IF p.k = Chunks THEN "done" ELSE "write",
               !.proc[e].result = IF p.k = Chunks THEN "stored" ELSE "none"]
    /\ SharedUnchanged

\* if cache_file.exists():
LookupExists(e) ==
    /\ shared # NoArgs
    /\ shared.proc[e].at = "exists"
    /\ shared' = IF shared.path = NoPath
                 THEN [shared EXCEPT !.proc[e].at = "done",
                                     !.proc[e].result = "absent"]
                 ELSE [shared EXCEPT !.proc[e].at = "open_rb"]
    /\ SharedUnchanged

\* with open(cache_file, 'rb') as f: raises when the name is gone, which the
\* except clause turns into None
LookupOpen(e) ==
    /\ shared # NoArgs
    /\ shared.proc[e].at = "open_rb"
    /\ shared' = IF shared.path = NoPath
                 THEN [shared EXCEPT !.proc[e].at = "done",
                                     !.proc[e].result = "absent"]
                 ELSE [shared EXCEPT !.proc[e].fd = shared.path,
                                     !.proc[e].k = 1,
                                     !.proc[e].at = "read"]
    /\ SharedUnchanged

\* pickle.load(f): the next chunk is read from the descriptor's inode; at the
\* end of the file, or after the last chunk, the chunks read are unpickled,
\* and what pickle.load raises is turned into None
LookupRead(e, outcome) ==
    /\ shared # NoArgs
    /\ shared.proc[e].at = "read"
    /\ LET p == shared.proc[e]
           content == shared.inodes[p.fd]
           buf == IF p.k <= Len(content) THEN Append(p.buf, content[p.k])
                  ELSE p.buf
           ends == p.k > Len(content) \/ p.k = Chunks
       IN  /\ outcome \in LoadOutcomes(buf)
           /\ ~ends => outcome = "raises"
           /\ shared' =
                 IF ~ends
                 THEN [shared EXCEPT !.proc[e].buf = buf,
                                     !.proc[e].k = p.k + 1]
                 ELSE IF outcome = "raises"
                 THEN [shared EXCEPT !.proc[e].buf = buf,
                                     !.proc[e].at = "done",
                                     !.proc[e].result = "absent"]
                 ELSE [shared EXCEPT !.proc[e].buf = buf,
                                     !.proc[e].data = outcome,
                                     !.proc[e].at = "stat"]
    /\ SharedUnchanged

\* cache_file.stat().st_mtime: raises when the name is gone (None is
\* returned); otherwise the entry is fresh and cached_data is returned
LookupStat(e) ==
    /\ shared # NoArgs
    /\ shared.proc[e].at = "stat"
    /\ shared' = [shared EXCEPT
           !.proc[e].at = "done",
           !.proc[e].result = IF shared.path = NoPath THEN "absent"
                              ELSE shared.proc[e].data]
    /\ SharedUnchanged

\* clear_cache: cache_file.unlink() for the file the glob yielded
ClearUnlink(e) ==
    /\ shared # NoArgs
    /\ shared.proc[e].at = "unlink"
    /\ shared' = [shared EXCEPT !.path = NoPath,
                                !.proc[e].at = "done",
                                !.proc[e].result = "cleared"]
    /\ SharedUnchanged

NextShared ==
    \/ \E e \in Engines, op \in {"store", "lookup", "clear"} : StartOp(e, op)
    \/ \E e \in Engines : StoreOpen(e)
    \/ \E e \in Engines : StoreWrite(e)
    \/ \E e \in Engines : LookupExists(e)
    \/ \E e \in Engines : LookupOpen(e)
    \/ \E e \in Engines, outcome \in Engines \cup {"raises", "mixed"} :
          LookupRead(e, outcome)
    \/ \E e \in Engines : LookupStat(e)
    \/ \E e \in Engines : ClearUnlink(e)

SpecShared == InitShared /\ [][NextShared]_vars

(***************************************************************************)
(* Properties                                                              *)
(***************************************************************************)
\* the last call took the compute path and returned its bundle
ReturnedComputed == pc = "idle" /\ ret.kind = "bundle" /\ hist.path = "compute"
\* the last call was answered from the cache
ReturnedCached == pc = "idle" /\ ret.kind = "bundle" /\ hist.path = "hit"

StatusOf(bundle, i) == Get(bundle.sections.map[i], "status")
RegistryOrder == [k \in 1..N |-> sections[k].id]

\* C1: a call that takes the compute path and returns gives a bundle whose
\* section mapping has exactly the registry's ids as keys, whichever section
\* functions raised and in whichever order the sections completed.
C1_Completeness ==
    ReturnedComputed => DOMAIN ret.value.sections.map = SectionIds

\* a returned bundle in which a section function raised and the sections
\* were collected in another order than the registry's
C1_Witness ==
    /\ ReturnedComputed
    /\ hist.raised # {}
    /\ ret.value.sections.order # RegistryOrder

\* C2: exactly the sections whose function raised have status 'error', all
\* others 'success', and the summary counts |F| failed and N - |F| successful.
C2_Isolation ==
    ReturnedComputed =>
        /\ \A i \in SectionIds :
              StatusOf(ret.value, i) =
                 IF i \in hist.raised THEN "error" ELSE "success"
        /\ ret.value.summary["failed_sections"] = Cardinality(hist.raised)
        /\ ret.value.summary["successful_sections"] = N - Cardinality(hist.raised)

\* C3: in a bundle returned by the compute path
\* successful_sections + failed_sections = total_sections.
C3_TalliesAddUp ==
    ReturnedComputed =>
        ret.value.summary["successful_sections"]
        + ret.value.summary["failed_sections"]
        = ret.value.summary["total_sections"]

\* a returned bundle with a successful and a failed section
C3_Witness ==
    /\ ReturnedComputed
    /\ ret.value.summary["successful_sections"] > 0
    /\ ret.value.summary["failed_sections"] > 0

\* C4: on the compute path the callback is invoked once for each finished
\* section, with completed = 1, 2, ..., total in that order and the section
\* count as total.
Yielded == {i \in SectionIds : task[i].st = "yielded"}
C4_ProgressSequence ==
    /\ (pc = "collect" /\ call.hasCb) =>
          /\ Len(cbLog) = Cardinality(Yielded)
          /\ \A k \in 1..Len(cbLog) :
                cbLog[k].current = k /\ cbLog[k].total = N
    /\ (ReturnedComputed /\ call.hasCb) =>
          /\ Len(cbLog) = N
          /\ \A k \in 1..N : cbLog[k].current = k /\ cbLog[k].total = N

\* the five components the key is said to depend on: events row count, set
\* of event column names, phases row count (0 if absent), set of phase
\* column names (empty if absent), identifier (empty if absent)
FiveComponents(in) ==
    <<in.events_df.rows,
      Range(in.events_df.cols),
      IF in.phases_df = None THEN 0 ELSE in.phases_df.rows,
      IF in.phases_df = None THEN {} ELSE Range(in.phases_df.cols),
      IF in.team_id = NoneStr THEN <<>> ELSE in.team_id>>

KeysComputed == keyOut # NoArgs

\* C7: two calls that agree on the five components get the same key
\* (whatever the row order, the cell values, the order of the columns, phases
\* absent or empty, identifier absent or empty).
C7_KeyFromFiveComponents ==
    (KeysComputed /\ FiveComponents(keyIn[1]) = FiveComponents(keyIn[2]))
        => keyOut[1] = keyOut[2]

\* C8: two calls that differ in one of the five components never get the
\* same key string.
C8_KeysSeparateInputs ==
    (KeysComputed /\ FiveComponents(keyIn[1]) # FiveComponents(keyIn[2]))
        => keyOut[1] # keyOut[2]

\* a file from which a lookup at time t returns the bundle
Hits(file, t) == file.file /\ file.blob.ok /\ IsFresh(t - file.mtime)

NoExecution == \A i \in SectionIds : hist.execs[i] = 0
AllExecutedOnce == \A i \in SectionIds : hist.execs[i] = 1

\* C5: on a cache hit the callback is invoked exactly once, with current =
\* total = section count and the cache-hit message, no section function is
\* entered, nothing is stored, and the bundle returned is the cached one.
C5_CacheHit ==
    /\ pc = "hit" =>
          /\ Hits(cache[call.cache_key], now)
          /\ load.cached_data = Unpickle(cache[call.cache_key].blob)
    /\ (pc = "idle" /\ hist.path = "hit") =>
          /\ NoExecution
          /\ hist.stores = <<>>
          /\ IF call.hasCb
             THEN /\ Len(cbLog) = 1
                  /\ cbLog[1].current = N
                  /\ cbLog[1].total = N
                  /\ cbLog[1].message = <<"Loaded from cache">>
             ELSE cbLog = <<>>
          /\ ret.kind = "bundle" =>
                \/ cache[ret.key] = NoFile
                \/ /\ cache[ret.key].blob.ok
                   /\ Unpickle(cache[ret.key].blob) = ret.value
          /\ ret.kind = "exception" => (call.hasCb /\ cbLog[1].outcome = "raise")

\* a call answered from the cache that was given a callback
C5_Witness == ReturnedCached /\ call.hasCb /\ cache[ret.key] # NoFile

\* the last two calls had the same tables and identifier, used the cache and
\* returned
TwoEqualCachedCalls ==
    /\ pc = "idle"
    /\ prev.kind = "bundle" /\ ret.kind = "bundle"
    /\ prev.use_cache /\ ret.use_cache
    /\ prev.events_df = ret.events_df
    /\ prev.phases_df = ret.phases_df
    /\ prev.team_id = ret.team_id

ReturnedAfterStale ==
    pc = "idle" /\ hist.lookup = "absent_stale" /\ ret.kind = "bundle"

\* C9 as stated: an entry of age >= TTL is never returned by the lookup; the
\* call that finds it enters every section function once and overwrites the
\* entry with the fresh bundle, so that a lookup hits again.
C9_TtlExpiry ==
    /\ pc = "hit" => now - cache[call.cache_key].mtime < TTL
    /\ ReturnedAfterStale =>
          /\ hist.age >= TTL
          /\ AllExecutedOnce
          /\ Len(hist.stores) = 1
          /\ hist.stores[1].after = File(Pickle(ret.value), ret.at)
          /\ Hits(hist.stores[1].after, ret.at)

\* C9 as amended: the entry is overwritten with the fresh bundle when the
\* write succeeds; when the write fails the bundle is returned all the same
\* and the file left behind (the stale one, or a truncated one) is not
\* returned by a lookup.
C9_TtlExpiryWhenSaved ==
    /\ pc = "hit" => now - cache[call.cache_key].mtime < TTL
    /\ ReturnedAfterStale =>
          /\ hist.age >= TTL
          /\ AllExecutedOnce
          /\ Len(hist.stores) = 1
          /\ hist.stores[1].data = ret.value
          /\ IF hist.stores[1].outcome = "ok"
             THEN /\ hist.stores[1].after = File(Pickle(ret.value), ret.at)
                  /\ Hits(hist.stores[1].after, ret.at)
             ELSE ~Hits(hist.stores[1].after, ret.at)

\* an entry of exactly TTL seconds was found, recomputed and overwritten
C9_Witness ==
    /\ ReturnedAfterStale
    /\ hist.age = TTL
    /\ hist.stores[1].outcome = "ok"

ReadFailures == {"absent_nofile", "absent_vanished", "absent_ioerror",
                 "absent_corrupt"}
SummaryKeys == {"total_sections", "total_events", "total_phases",
                "computation_start", "computation_end", "total_time",
                "successful_sections", "failed_sections"}

C11_WriteFailureHarmless ==
    [][(pc = "collect" /\ pc' = "idle") =>
          /\ ret'.kind = "bundle"
          /\ ret'.value = Summarise(results, now)
          /\ DOMAIN ret'.value.sections.map = SectionIds
          /\ call.use_cache => ret'.value = hist'.stores[1].data]_vars

\* a call whose store failed while pickling returned its bundle
C11_Witness ==
    /\ ReturnedComputed
    /\ ret.saved = "dump_fails"
    /\ cache[ret.key] = File(Corrupt, ret.at)

\* C12: after clear_cache has returned and until the next store, no file is
\* left, no lookup hits, and a call with use_cache that starts in that time
\* finds no entry and enters every section function.
C12_ClearInvalidates ==
    /\ cleared =>
          /\ \A k \in CacheKeys : cache[k] = NoFile
          /\ pc # "hit"
    /\ (pc = "idle" /\ call # NoCall /\ call.after_clear /\ call.use_cache
           /\ ret.kind = "bundle") =>
          /\ hist.lookup = "absent_nofile"
          /\ hist.path = "compute"
          /\ AllExecutedOnce

\* a bundle was stored, the cache was cleared, and the next call with the
\* same input and use_cache computed again
C12_Witness ==
    /\ pc = "idle" /\ call # NoCall /\ call.after_clear /\ call.use_cache
    /\ prev.kind = "bundle" /\ prev.saved = "ok" /\ prev.key = ret.key
    /\ ret.kind = "bundle"
    /\ hist.path = "compute"

\* C13: when the events argument is not a table at all, the call raises to
\* the caller instead of returning a bundle, with use_cache and without.
C13_UnusableInputRaises ==
    (pc = "idle" /\ call # NoCall /\ ~IsTable(call.events_df)) =>
        ret.kind = "exception"

\* C14: a compute-path call with use_cache that returns makes exactly one
\* store, under the key of the call, when every section has completed and
\* been collected and the summary carries its end time and tallies, in the
\* step that returns; the data stored is the bundle returned.
C14_OneStoreAtTheEnd ==
    [][/\ Len(hist'.stores) > Len(hist.stores) =>
             /\ hist.stores = <<>>
             /\ Len(hist'.stores) = 1
             /\ \A i \in SectionIds : task[i].st = "yielded"
             /\ hist'.stores[1].key = call.cache_key
             /\ DOMAIN hist'.stores[1].data.sections.map = SectionIds
             /\ DOMAIN hist'.stores[1].data.summary = SummaryKeys
             /\ hist'.stores[1].data.summary["computation_end"] = now
             /\ hist'.stores[1].data.summary["successful_sections"]
                    = CountStatus(results.sections, "success")
             /\ hist'.stores[1].data.summary["failed_sections"]
                    = CountStatus(results.sections, "error")
             /\ pc' = "idle" /\ ret'.kind = "bundle"
             /\ ret'.value = hist'.stores[1].data
       /\ (pc = "collect" /\ pc' = "idle") =>
             Len(hist'.stores) = IF call.use_cache THEN 1 ELSE 0]_vars

\* a call with use_cache has returned a bundle with a failed section that it
\* stored in the cache file
C14_Witness ==
    /\ ReturnedComputed /\ ret.use_cache
    /\ ret.value.summary["failed_sections"] > 0
    /\ Len(hist.stores) = 1
    /\ cache[ret.key] = File(Pickle(ret.value), ret.at)

\* the registry of MetricsEngine.__init__ has 14 descriptors; the engine of
\* a behaviour holds the first N of them
RegistrySize == Len(Registry)

\* C15: the summary of a bundle returned from the compute path reports the
\* inputs: total_events is the row count of events, total_phases that of
\* phases (0 without phases), and total_sections is the length of the
\* registry (14 for the full registry) and the number of entries of the
\* section mapping.
C15_SummaryReportsInputs ==
    /\ RegistrySize = 14
    /\ sections = SubSeq(Registry, 1, N)
    /\ ReturnedComputed =>
          /\ ret.value.summary["total_events"] = ret.events_df.rows
          /\ ret.value.summary["total_phases"] =
                 IF ret.phases_df = None THEN 0 ELSE ret.phases_df.rows
          /\ ret.value.summary["total_sections"] = Len(sections)
          /\ ret.value.summary["total_sections"] =
                 Cardinality(DOMAIN ret.value.sections.map)

\* a bundle computed with caching off from two event rows and one phase row,
\* with a failed section
C15_Witness ==
    /\ ReturnedComputed /\ ~ret.use_cache
    /\ ret.events_df = Events1 /\ ret.phases_df = Phases1
    /\ ret.value.summary["total_events"] = 2
    /\ ret.value.summary["total_phases"] = 1
    /\ ret.value.summary["failed_sections"] > 0

\* C16: for every metric function and every table that lacks optional
\* columns the section returns with status 'success', the function does not
\* raise, and no metric carries a value put in place of the one that the
\* missing column would have given (such a metric is omitted).
C16_GracefulDegradation ==
    fnOut # NoArgs =>
        /\ ~fnOut.raised
        /\ fnOut.status = "success"
        /\ \A k \in DOMAIN fnOut.metrics : fnOut.metrics[k] = "computed"

\* the two states of a section result
IsSuccessRecord(r) ==
    /\ Get(r, "status") = "success"
    /\ "metrics" \in DOMAIN r
    /\ "error" \notin DOMAIN r
IsErrorRecord(r) ==
    /\ Get(r, "status") = "error"
    /\ "error" \in DOMAIN r
    /\ "metrics" \in DOMAIN r
    /\ r["metrics"] = {}

\* C17: every section result of a returned bundle is either a success
\* record (metrics, no error description) or an error record (error
\* description, empty metrics), never both, and the id, name and icon of the
\* result under key k are those of the registry descriptor with id k.
C17_TwoStates ==
    (pc = "idle" /\ ret.kind = "bundle") =>
        \A k \in DOMAIN ret.value.sections.map :
            LET r == ret.value.sections.map[k]
            IN  /\ IsSuccessRecord(r) # IsErrorRecord(r)
                /\ ~("error" \in DOMAIN r /\ r["metrics"] # {})
                /\ k \in SectionIds
                /\ Get(r, "id") = k
                /\ Get(r, "name") = SectionOf(k).name
                /\ Get(r, "icon") = SectionOf(k).icon

\* a bundle with a success record, the error record of a section function
\* that raised, and the error record the loop wrote after the callback raised
C17_Witness ==
    /\ ReturnedComputed
    /\ \E i, j, k \in SectionIds :
          /\ IsSuccessRecord(ret.value.sections.map[i])
          /\ j \in hist.raised
          /\ ret.value.sections.map[j]["error"] = ErrorText(SectionOf(j))
          /\ k \notin hist.raised
          /\ ret.value.sections.map[k]["status"] = "error"
          /\ ret.value.sections.map[k]["error"] = CallbackErrorText

\* C18: every section result of a returned bundle, success or error, has a
\* computation duration; the error record of a section whose function
\* raised has the descriptor's id, name and icon and a duration >= 0.
C18_DurationAlways ==
    ReturnedComputed =>
        \A k \in DOMAIN ret.value.sections.map :
            LET r == ret.value.sections.map[k]
            IN  /\ Get(r, "id") = k
                /\ Get(r, "name") = SectionOf(k).name
                /\ Get(r, "icon") = SectionOf(k).icon
                /\ "computation_time" \in DOMAIN r
                /\ r["computation_time"] >= 0

\* every section of the call on the compute path has been entered once
PoolAllExecuted == hist.path = "compute" /\ AllExecutedOnce

\* C19: at most 4 section functions are executing at any moment, although
\* every section is submitted before the loop starts; no section function
\* is entered twice, and every submitted section is eventually entered,
\* also when an exception of the callback ends the loop early.
C19_BoundedPool ==
    /\ [](/\ Cardinality(Running) <= 4
          /\ hist.path = "compute" =>
                /\ DOMAIN task = SectionIds
                /\ \A i \in SectionIds : hist.execs[i] <= 1
                /\ \A i \in SectionIds :
                      hist.execs[i] = IF task[i].st = "queued" /\ pc # "idle"
                                      THEN 0 ELSE 1)
    /\ (pc = "collect") ~> PoolAllExecuted

\* four section functions are executing while a submitted section waits
C19_Witness ==
    /\ Cardinality(Running) = 4
    /\ Pending # {}

\* a step of a worker thread: a task starts running or becomes done
WorkerStep ==
    \E i \in DOMAIN task :
        /\ i \in DOMAIN task'
        /\ task'[i].st # task[i].st
        /\ task'[i].st \in {"running", "done"}

\* C20: `completed` is written and the callback invoked only by the thread
\* that called compute_all_metrics, never in a step of a worker, one
\* invocation after the other; under every order of completions the values
\* passed as current are 1, 2, 3, ... without a gap or a repetition.
C20_CallbackSerialised ==
    /\ [](hist.path = "compute" =>
            /\ \A k \in 1..Len(cbLog) : cbLog[k].current = k
            /\ (pc \in {"collect", "unwind"} /\ call.hasCb) =>
                  Len(cbLog) = completed)
    /\ [][/\ WorkerStep => UNCHANGED <<completed, cbLog, pc>>
          /\ Len(cbLog') > Len(cbLog) => pc \in {"collect", "hit"}
          /\ completed' > completed => pc = "collect"]_vars

\* the sections completed in another order than they were submitted and the
\* callback saw 1..N
C20_Witness ==
    /\ ReturnedComputed /\ call.hasCb
    /\ ret.value.sections.order # RegistryOrder
    /\ Len(cbLog) = N
    /\ \A k \in 1..N : cbLog[k].current = k /\ cbLog[k].outcome = "ok"

\* C21: the section mapping of a returned bundle iterates in registry
\* order (the order in which report_page.py renders the sections with
\* sections.items()), in whichever order the sections completed.
C21_RegistryOrderIteration ==
    ReturnedComputed => ret.value.sections.order = RegistryOrder

\* the callback was invoked for section i in the try branch of the loop
CallbackFiredFor(i) ==
    \E k \in 1..Len(cbLog) :
        cbLog[k].message = <<"Completed: ", SectionOf(i).name>>

\* C22: the call returns only when every dispatched section has completed
\* and, with a callback, the callback has fired for it, so no partial bundle
\* is returned (and an exception of the callback leaves the call only when
\* no task is queued or running); if every section function terminates
\* then, under fair scheduling, control eventually comes back to the caller;
\* from the moment one section function hangs, the call never ends.
C22_BlocksUntilAllComplete ==
    /\ [][(pc # "idle" /\ pc' = "idle") =>
            /\ \A i \in SectionIds : task[i].st \in {"done", "yielded"}
            /\ ret'.kind = "bundle" =>
                  /\ \A i \in SectionIds : task[i].st = "yielded"
                  /\ DOMAIN ret'.value.sections.map = SectionIds
                  /\ call.hasCb => \A i \in SectionIds : CallbackFiredFor(i)]_vars
    /\ [][Hung # {} => (Hung \subseteq Hung' /\ pc' # "idle")]_vars
    /\ [](Hung # {} => pc \in {"collect", "unwind"})
    /\ (pc \in {"init", "collect", "unwind"}) ~> (pc = "idle" \/ Hung # {})

\* one section function hangs; every other section has completed and been
\* collected with its callback, and the call is still blocked
C22_Witness ==
    /\ pc = "collect" /\ call.hasCb
    /\ Cardinality(Hung) = 1
    /\ \A i \in SectionIds \ Hung : task[i].st = "yielded" /\ CallbackFiredFor(i)
    /\ Len(cbLog) = N - 1

\* C23: the tables the caller passed are unchanged by the section
\* functions: the events and phases objects keep their columns, a helper
\* column (time_window, game_state_type) is only ever assigned to a copy
\* that the assigning function made, and every read of the columns through
\* a parameter, by either of two concurrently running sections, sees the
\* original column set.
C23_InputsUnchanged ==
    mem # NoArgs =>
        /\ mem.heap[EventsObj] = mem.orig
        /\ mem.heap[PhasesObj] = mem.origPhases
        /\ Range(HelperColumn) \cap mem.heap[EventsObj] = {}
        /\ \A th \in TableThreads :
              /\ mem.frame[th].seen \subseteq {mem.orig}
              /\ mem.frame[th].at \in {"assign", "use"} =>
                    mem.frame[th].events_df \notin {EventsObj, PhasesObj}

\* both sections have derived time_window on copies of their own while the
\* other was running, and the events table still has its columns
C23_Witness ==
    /\ mem # NoArgs
    /\ \A th \in TableThreads : mem.frame[th].at = "use"
    /\ mem.frame["momentum"].events_df # mem.frame["consistency"].events_df
    /\ \A th \in TableThreads :
          "time_window" \in mem.heap[mem.frame[th].events_df]
    /\ "time_window" \notin mem.heap[EventsObj]

\* the positions of a call inside the lookup and on its cache-hit return
LookupSteps == {"load_exists", "load_read", "load_stat", "hit"}

\* C24: a lookup has no effect on the cache files: no step of it removes a
\* file (a stale or corrupt entry stays until a store overwrites it or
\* clear_cache unlinks it) or changes a timestamp; a file changes only by
\* the store of a call, which stamps it with the time of the store, or by
\* clear_cache; so the age a lookup computes is the time since the last
\* store, however many hits came in between, and an entry is returned only
\* while that age is below one hour.
C24_LookupLeavesStore ==
    /\ [][(pc \in LookupSteps /\ pc' # pc) => cache' = cache]_vars
    /\ [][\A k \in CacheKeys :
             cache'[k] # cache[k] =>
                \/ /\ pc \in {"idle", "load_read", "load_stat"} /\ pc' = pc
                   /\ \A j \in CacheKeys : cache'[j] = NoFile
                \/ /\ pc = "collect" /\ pc' = "idle"
                   /\ call.use_cache /\ k = call.cache_key
                   /\ cache'[k].file /\ cache'[k].mtime = now]_vars
    /\ [](pc = "hit" =>
             /\ hist.age = now - cache[call.cache_key].mtime
             /\ hist.age < TTL)
    /\ []((pc = "init" /\ hist.lookup \in {"absent_stale", "absent_corrupt"}
              /\ ~cleared) =>
             /\ cache[call.cache_key].file
             /\ hist.lookup = "absent_stale" =>
                   hist.age = now - cache[call.cache_key].mtime)

\* the entry stored at time 0 was returned by a lookup half an hour later
\* and found stale by the next lookup, exactly one hour after the store,
\* where it is still on disk with its timestamp
C24_Witness ==
    /\ pc = "init"
    /\ ret.kind = "bundle" /\ ret.path = "hit"
    /\ ret.key = call.cache_key /\ ret.at = ClockStep
    /\ hist.lookup = "absent_stale" /\ hist.age = TTL
    /\ cache[call.cache_key] = File(Pickle(EarlierBundle), 0)
    /\ ret.value = EarlierBundle

\* C25: whatever the callback does, a raise included, every section is
\* counted once: `completed` never exceeds the number of sections and the
\* callback is never invoked with current > total.
C25_CountedOnce ==
    /\ completed <= N
    /\ \A k \in 1..Len(cbLog) : cbLog[k].current <= cbLog[k].total
    /\ (pc = "collect" /\ hist.path = "compute") =>
          completed = Cardinality(Yielded)

\* C26: the record of a section depends only on what its function did: a
\* section whose function returned is recorded with status 'success' and the
\* metrics the function gave, whatever the callback did, and the summary
\* counts it as successful.
C26_CallbackCannotChangeResult ==
    ReturnedComputed =>
        /\ \A i \in SectionIds \ hist.raised :
              /\ IsSuccessRecord(ret.value.sections.map[i])
              /\ ret.value.sections.map[i]["metrics"] =
                    FunctionResult(SectionOf(i), ret.events_df,
                                   ret.phases_df)["metrics"]
        /\ ret.value.summary["successful_sections"]
              = Cardinality(SectionIds \ hist.raised)

\* the callback raised during the current call
CallbackRaised == \E k \in 1..Len(cbLog) : cbLog[k].outcome = "raise"

\* C27: an exception of the callback never leaves compute_all_metrics: the
\* loop is never left by it, and a compute-path call in which the callback
\* raised still collects every section, stores the bundle when use_cache is
\* set, and returns a complete bundle.
C27_CallbackNeverPropagates ==
    /\ pc # "unwind"
    /\ ~(pc = "idle" /\ ret.kind = "exception" /\ ret.cause = "callback")
    /\ (pc = "idle" /\ hist.path = "compute" /\ CallbackRaised) =>
          /\ ret.kind = "bundle"
          /\ DOMAIN ret.value.sections.map = SectionIds
          /\ DOMAIN ret.value.summary = SummaryKeys
          /\ ret.use_cache => Len(hist.stores) = 1

\* C28: a call with use_cache = False neither reads nor writes the cache
\* files: it makes no lookup and no store, enters every section function
\* even when a fresh entry for its inputs exists, and no step of it changes
\* a file or a timestamp.
C28_NoCacheBypasses ==
    /\ []((call # NoCall /\ ~call.use_cache) =>
             /\ hist.lookup = "none"
             /\ hist.stores = <<>>
             /\ pc \in {"idle", "init", "collect", "unwind"}
             /\ (pc = "idle" /\ ret.kind = "bundle") =>
                   (hist.path = "compute" /\ AllExecutedOnce))
    /\ [][((pc # "idle" \/ pc' # "idle") /\ ~call'.use_cache) =>
             cache' = cache]_vars

\* a call with use_cache stored its bundle; the next call, with the same
\* inputs and use_cache = False, entered every section while that entry was
\* fresh, and the entry is as the first call left it
C28_Witness ==
    /\ ReturnedComputed /\ ~ret.use_cache
    /\ prev.kind = "bundle" /\ prev.use_cache /\ prev.saved = "ok"
    /\ prev.events_df = ret.events_df /\ prev.phases_df = ret.phases_df
    /\ prev.team_id = ret.team_id
    /\ cache[prev.key] = File(Pickle(prev.value), prev.at)
    /\ Hits(cache[prev.key], now)
    /\ AllExecutedOnce
    /\ ret.at > prev.at

\* the engines whose store has written its whole pickle
StoredInFull == {e \in Engines : shared.proc[e].result = "stored"}
\* no store is between its open and its last write
NoStoreRunning == \A e \in Engines : shared.proc[e].at \notin {"open_wb", "write"}
\* the pickle of the bundle of engine e, whole
WholePickle(e) == [k \in 1..Chunks |-> Chunk(e, k)]

\* C29: with engines sharing the cache_dir, a lookup that runs while others
\* store or clear the same key returns absent or the complete bundle of a
\* store that wrote it in full, never a bundle pieced together from
\* different writes; and when no store is running, the file (if any) holds
\* the complete bundle of one of the engines that stored.
C29_SharedDirectoryAtomicity ==
    shared # NoArgs =>
        /\ \A e \in Engines :
              (shared.proc[e].op = "lookup" /\ shared.proc[e].at = "done") =>
                 \/ shared.proc[e].result = "absent"
                 \/ shared.proc[e].result \in StoredInFull
        /\ (NoStoreRunning /\ shared.path # NoPath) =>
              \E e \in StoredInFull :
                  shared.inodes[shared.path] = WholePickle(e)

\* C30: a store that fails leaves the cache files as they were: when a
\* fresh valid entry for the key was there before the failed store, it is
\* there afterwards and a lookup still returns its bundle.
C30_FailedStoreLeavesEntry ==
    (/\ pc = "idle" /\ hist.stores # <<>>
     /\ hist.stores[1].outcome # "ok"
     /\ Hits(hist.stores[1].before, ret.at)) =>
        /\ hist.stores[1].after = hist.stores[1].before
        /\ Hits(hist.stores[1].after, ret.at)

====
